---- MODULE Spec2Model ----
(***************************************************************************)
(* Solar rooftop / hybrid system sizer (src/app.py).                       *)
(*                                                                         *)
(* Numbers are exact fixed-point integers:                                 *)
(*   energy          hundredths of a kWh   (13.2 kWh  = 1320)              *)
(*   pv_kw, battery_kwh, payback_years, inverter_kw                        *)
(*                   tenths, the grid round(x, 1) lands on (3.0 = 30)      *)
(*   irradiance      tenths of kWh/m2/day  (5.5 = 55)                      *)
(*   tariffs         hundredths of a rupee (6.85 = 685)                    *)
(*   money           thirds of a rupee, so that the subsidy                *)
(*                   min(pv_kw, 3) * 26000 / 3 is exact (109000 = 327000)  *)
(*   roof height     1/HeightScale of a metre                              *)
(* A Python float that is the result of the arithmetic on such inputs is   *)
(* within a few ulp of the exact rational, so round(x, 1) is the nearest   *)
(* tenth whenever the rational is not exactly halfway between two tenths;  *)
(* on an exact decimal tie the double lies on either side of the tie, and  *)
(* round(x, 1) is either neighbour: Round1 returns the SET of outcomes.    *)
(***************************************************************************)
EXTENDS Integers, Sequences, FiniteSets, TLC

(* ---------------------------- bounds ---------------------------------- *)
\* units per metre of the roof-height input (2: half metres)
HeightScale == 2
\* largest roof height entered, in metres
MaxHeight == 200
\* largest total number of appliances entered in the sidebar
MaxTotalQty == 2
\* number of selectbox options exercised (the first MaxCity cities)
MaxCity == 8
\* number of edits a caller makes to a returned brand list
MaxEdits == 1

(* ------------------- 1. city-wise solar & tariff data ------------------ *)
CITY_KEYS ==
  << "pune", "mumbai", "delhi", "bangalore", "hyderabad", "chennai",
     "kolkata", "jaipur", "ahmedabad", "surat", "coimbatore", "lucknow",
     "gurgaon", "vadodara", "nagpur", "visakhapatnam", "indore",
     "bhubaneswar", "varanasi", "default" >>

CityRow(t, e, g) == [grid_tariff |-> t, export_rate |-> e, ghi |-> g]

CITY_SOLAR_DATA ==
  [c \in {CITY_KEYS[i] : i \in 1..Len(CITY_KEYS)} |->
     CASE c = "pune"          -> CityRow(685, 390, 55)
       [] c = "mumbai"        -> CityRow(685, 390, 50)
       [] c = "delhi"         -> CityRow(550, 550, 53)
       [] c = "bangalore"     -> CityRow(700, 382, 51)
       [] c = "hyderabad"     -> CityRow(665, 315, 54)
       [] c = "chennai"       -> CityRow(580, 315, 53)
       [] c = "kolkata"       -> CityRow(610, 315, 45)
       [] c = "jaipur"        -> CityRow(650, 310, 57)
       [] c = "ahmedabad"     -> CityRow(610, 225, 58)
       [] c = "surat"         -> CityRow(610, 225, 56)
       [] c = "coimbatore"    -> CityRow(580, 315, 52)
       [] c = "lucknow"       -> CityRow(710, 382, 52)
       [] c = "gurgaon"       -> CityRow(600, 550, 53)
       [] c = "vadodara"      -> CityRow(610, 225, 57)
       [] c = "nagpur"        -> CityRow(685, 390, 56)
       [] c = "visakhapatnam" -> CityRow(580, 315, 51)
       [] c = "indore"        -> CityRow(700, 390, 55)
       [] c = "bhubaneswar"   -> CityRow(610, 390, 52)
       [] c = "varanasi"      -> CityRow(710, 382, 51)
       [] c = "default"       -> CityRow(685, 390, 50)]

(* ----------------------- 2. cost & tech constants ---------------------- *)
APPLIANCES ==
  << "AC 1.5 ton", "Fridge", "TV", "Fan", "Light (LED)", "Washing Machine",
     "Laptop", "Monitor", "Other" >>

ApplianceSet == {APPLIANCES[i] : i \in 1..Len(APPLIANCES)}

\* watts
APPLIANCE_P_RATED ==
  [a \in ApplianceSet |->
     CASE a = "AC 1.5 ton"      -> 1600
       [] a = "Fridge"          -> 150
       [] a = "TV"              -> 120
       [] a = "Fan"             -> 60
       [] a = "Light (LED)"     -> 15
       [] a = "Washing Machine" -> 500
       [] a = "Laptop"          -> 60
       [] a = "Monitor"         -> 30
       [] a = "Other"           -> 100]

\* tenths of an hour per day (0.5 h = 5)
DEFAULT_DUTY_HOURS ==
  [a \in ApplianceSet |->
     CASE a = "AC 1.5 ton"      -> 60
       [] a = "Fridge"          -> 240
       [] a = "TV"              -> 40
       [] a = "Fan"             -> 80
       [] a = "Light (LED)"     -> 60
       [] a = "Washing Machine" -> 5
       [] a = "Laptop"          -> 40
       [] a = "Monitor"         -> 40
       [] a = "Other"           -> 40]

\* 0.80, in hundredths
DERATE_FACTOR == 80
PANEL_COST_PER_KW == 45000
INVERTER_COSTS == [grid |-> 12000, hybrid |-> 20000, offgrid |-> 18000]
InverterTypes == {"grid", "hybrid", "offgrid"}
BATTERY_COST_PER_KWH == 13000
SUBSIDY_FLAT_KW == 3
SUBSIDY_PER_KW_FIRST3 == 26000

(* -------------------- height-based module lookup ----------------------- *)
\* references of the six recommended_companies list objects
BrandRefs == 1..6

\* the list objects as the module builds them
InitialHeap ==
  [r \in BrandRefs |->
     CASE r = 1 -> << "LONGi", "JA Solar", "Jinko" >>
       [] r = 2 -> << "Trina", "Jinko", "Canadian Solar" >>
       [] r = 3 -> << "LONGi", "JA Solar", "Trina" >>
       [] r = 4 -> << "LONGi", "JA Solar", "Canadian Solar" >>
       [] r = 5 -> << "First Solar", "Trina" >>
       [] r = 6 -> << "First Solar", "LONGi" >>]

\* floor_height_m is a string, kept as its characters; recommended_companies
\* holds the reference of a list object
PANEL_BY_HEIGHT ==
  << [floor_height_m |-> << "3", "-", "1", "5" >>,
      optimal_panel_type |-> "Mono PERC / Bifacial",
      recommended_companies |-> 1, typical_wattage_w |-> 490,
      typical_dimensions_mm |-> "2000 x 1134 x 32"],
     [floor_height_m |-> << "1", "6", "-", "3", "0" >>,
      optimal_panel_type |-> "Half-cut Mono PERC / TOPCon",
      recommended_companies |-> 2, typical_wattage_w |-> 535,
      typical_dimensions_mm |-> "2278 x 1134 x 35"],
     [floor_height_m |-> << "3", "1", "-", "4", "5" >>,
      optimal_panel_type |-> "TOPCon / HJT",
      recommended_companies |-> 3, typical_wattage_w |-> 575,
      typical_dimensions_mm |-> "2384 x 1096 x 35"],
     [floor_height_m |-> << "4", "6", "-", "6", "0" >>,
      optimal_panel_type |-> "HJT / Bifacial (reinforced)",
      recommended_companies |-> 4, typical_wattage_w |-> 600,
      typical_dimensions_mm |-> "2384 x 1134 x 35"],
     [floor_height_m |-> << "6", "1", "-", "7", "5" >>,
      optimal_panel_type |-> "HJT / CdTe Thin-film",
      recommended_companies |-> 5, typical_wattage_w |-> 565,
      typical_dimensions_mm |-> "2200 x 1190 x 35"],
     [floor_height_m |-> << "7", "6", "-", "9", "0" >>,
      optimal_panel_type |-> "CdTe Thin-film / Reinforced HJT",
      recommended_companies |-> 6, typical_wattage_w |-> 565,
      typical_dimensions_mm |-> "2200 x 1190 x 38"] >>

(* ----------------------------- 3. dataclasses -------------------------- *)
SolarDesign(pv, pvc, area, ikw, ity, ic, bkwh, bc, pb) ==
  [pv_kw |-> pv, pv_cost |-> pvc, roof_area_m2 |-> area,
   inverter_kw |-> ikw, inverter_type |-> ity, inverter_cost |-> ic,
   battery_kwh |-> bkwh, battery_cost |-> bc, payback_years |-> pb]

\* brands is whatever the constructor is handed: a list reference
PanelRecommendation(panel_type, brands, wattage_w, size_mm) ==
  [panel_type |-> panel_type, brands |-> brands, wattage_w |-> wattage_w,
   size_mm |-> size_mm]

(* ------------------------ string to number ----------------------------- *)
Digits == << "0", "1", "2", "3", "4", "5", "6", "7", "8", "9" >>

IsDigit(ch) == \E d \in 1..10 : Digits[d] = ch

DigitVal(ch) == (CHOOSE d \in 1..10 : Digits[d] = ch) - 1

\* re.split(r"-", s) and str.split('-'): cut at every "-"
RECURSIVE re_split(_)
re_split(s) ==
  IF \A k \in 1..Len(s) : s[k] # "-"
  THEN << s >>
  ELSE LET k == CHOOSE j \in 1..Len(s) :
                  s[j] = "-" /\ \A m \in 1..(j - 1) : s[m] # "-"
       IN  << SubSeq(s, 1, k - 1) >> \o re_split(SubSeq(s, k + 1, Len(s)))

\* float(s) raises ValueError unless s is a number; the band edges are
\* written as unsigned decimal integers
IsNumber(s) == Len(s) > 0 /\ \A k \in 1..Len(s) : IsDigit(s[k])

\* float(s) for a string of digits, in metres
RECURSIVE ToFloat(_)
ToFloat(s) ==
  IF Len(s) = 0 THEN 0
  ELSE 10 * ToFloat(SubSeq(s, 1, Len(s) - 1)) + DigitVal(s[Len(s)])

\* lo, hi = map(float, re.split(...)) succeeds on exactly two numbers
Unpacks(s) ==
  LET parts == re_split(s)
  IN  Len(parts) = 2 /\ IsNumber(parts[1]) /\ IsNumber(parts[2])

BandLo(rec) == ToFloat(re_split(rec.floor_height_m)[1])

BandHi(rec) == ToFloat(re_split(rec.floor_height_m)[2])

\* the comparison with the lower edge left out of the band: lo < height_m
InBandExclusive(lo, hi, height_m) ==
  lo * HeightScale < height_m /\ height_m <= hi * HeightScale

\* lo <= height_m <= hi, height_m in 1/HeightScale metres
InBand(lo, hi, height_m) ==
  lo * HeightScale <= height_m /\ height_m <= hi * HeightScale

(* ------------------------- 4. core logic ------------------------------- *)
\* the for loop from band i on: the index of the band it breaks at, 0 when
\* it runs to the end (the else clause), -1 when unpacking a band raises
RECURSIVE ScanBands(_, _)
ScanBands(i, height_m) ==
  IF i > Len(PANEL_BY_HEIGHT) THEN 0
  ELSE LET rec == PANEL_BY_HEIGHT[i]
       IN  IF ~Unpacks(rec.floor_height_m) THEN -1
           ELSE IF InBand(BandLo(rec), BandHi(rec), height_m) THEN i
           ELSE ScanBands(i + 1, height_m)

\* PANEL_BY_HEIGHT[1] for PANEL_BY_HEIGHT[-1] in the else clause
NoMatchSecond(height_m) ==
  IF height_m > BandHi(PANEL_BY_HEIGHT[Len(PANEL_BY_HEIGHT)]) * HeightScale
  THEN 2
  ELSE 1

\* the selection initialised to nothing: only the else clause sets it
NoMatchNone(height_m) ==
  IF height_m > BandHi(PANEL_BY_HEIGHT[Len(PANEL_BY_HEIGHT)]) * HeightScale
  THEN Len(PANEL_BY_HEIGHT)
  ELSE 0

\* the else clause of the loop: the last band above its upper edge,
\* otherwise the initial selection PANEL_BY_HEIGHT[0]
NoMatchIndex(height_m) ==
  IF height_m > BandHi(PANEL_BY_HEIGHT[Len(PANEL_BY_HEIGHT)]) * HeightScale
  THEN Len(PANEL_BY_HEIGHT)
  ELSE 1

\* index of the band the function selects, 0 when it raises
SelectedIndex(height_m) ==
  LET m == ScanBands(1, height_m)
      last == re_split(PANEL_BY_HEIGHT[Len(PANEL_BY_HEIGHT)].floor_height_m)
  IN  IF m = -1 THEN 0
      ELSE IF m > 0 THEN m
      ELSE IF Len(last) < 2 \/ ~IsNumber(last[2]) THEN 0
      ELSE NoMatchIndex(height_m)

NoPanel == PanelRecommendation("", 0, 0, "")

\* [raised, value]: raised when an exception leaves the function
recommend_panel_by_floor_height(height_m) ==
  LET k == SelectedIndex(height_m)
  IN  IF k = 0 THEN [raised |-> TRUE, value |-> NoPanel]
      ELSE LET selected == PANEL_BY_HEIGHT[k]
           IN  [raised |-> FALSE,
                value |-> PanelRecommendation(selected.optimal_panel_type,
                                              selected.recommended_companies,
                                              selected.typical_wattage_w,
                                              selected.typical_dimensions_mm)]

(* ------------------------------ rounding ------------------------------- *)
Min(a, b) == IF a <= b THEN a ELSE b

\* the integers nearest to num / den (den > 0): one, or both on a tie
RoundNearest(num, den) ==
  LET q == num \div den
      r == num % den
  IN  IF 2 * r < den THEN {q}
      ELSE IF 2 * r > den THEN {q + 1}
      ELSE {q, q + 1}

\* round(x): to a whole number, still counted in tenths
RoundWhole(num, den) == {10 * q : q \in RoundNearest(num, den)}

\* round(x, 1) of x = num / den, as tenths
Round1(num, den) == RoundNearest(10 * num, den)

\* quotient and remainder of a * m by c without forming a * m (32-bit safe)
RECURSIVE MulDivMod(_, _, _)
MulDivMod(a, m, c) ==
  IF m = 0 THEN [q |-> 0, r |-> 0]
  ELSE LET h == MulDivMod(a, m \div 2, c)
           d == [q |-> 2 * h.q + ((2 * h.r) \div c), r |-> (2 * h.r) % c]
       IN  IF m % 2 = 0 THEN d
           ELSE [q |-> d.q + (a \div c) + ((d.r + (a % c)) \div c),
                 r |-> (d.r + (a % c)) % c]

\* the integers nearest to a * m / c
RoundMulDiv(a, m, c) ==
  LET x == MulDivMod(a, m, c)
  IN  IF 2 * x.r < c THEN {x.q}
      ELSE IF 2 * x.r > c THEN {x.q + 1}
      ELSE {x.q, x.q + 1}

(* --------------------------- sizing functions -------------------------- *)
\* the outage taken as a fraction of a day: outage / 24
size_battery_per_day(outage_hours_week, daily_kwh) ==
  Round1(daily_kwh * outage_hours_week * 12, 100 * 24 * 10)

\* round(daily_kwh * (outage_hours_week / 168) * 1.2, 1):
\* daily_kwh/100 * outage/168 * 12/10
size_battery(outage_hours_week, daily_kwh) ==
  Round1(daily_kwh * outage_hours_week * 12, 100 * 168 * 10)

\* the derating multiplied in: (daily_kwh / ghi) * DERATE_FACTOR
PvKwTimesDerate(daily_kwh, ghi) ==
  Round1(daily_kwh * 10 * DERATE_FACTOR, 100 * 100 * ghi)

\* round((daily_kwh / ghi) / DERATE_FACTOR, 1):
\* (daily_kwh/100) / (ghi/10) / (DERATE_FACTOR/100)
PvKw(daily_kwh, ghi) == Round1(daily_kwh * 10 * 100, 100 * ghi * DERATE_FACTOR)

\* min(pv_kw, SUBSIDY_FLAT_KW) * SUBSIDY_PER_KW_FIRST3 / SUBSIDY_FLAT_KW,
\* pv_kw in tenths, the result in thirds of a rupee
Subsidy(pv_kw) ==
  (3 * Min(pv_kw, 10 * SUBSIDY_FLAT_KW) * SUBSIDY_PER_KW_FIRST3)
    \div (10 * SUBSIDY_FLAT_KW)

\* pv_kw * PANEL_COST_PER_KW - subsidy, thirds of a rupee
PvCost(pv_kw) == (3 * pv_kw * PANEL_COST_PER_KW) \div 10 - Subsidy(pv_kw)

\* inv_kw * INVERTER_COSTS[inverter_type], thirds of a rupee
InvCost(inv_kw, inverter_type) ==
  (3 * inv_kw * INVERTER_COSTS[inverter_type]) \div 10

\* batt_kwh * BATTERY_COST_PER_KWH, thirds of a rupee
BattCost(batt_kwh) == (3 * batt_kwh * BATTERY_COST_PER_KWH) \div 10

\* daily_kwh * 365 * grid_tariff, in 1/10000 rupee
AnnualSavings(daily_kwh, grid_tariff) == daily_kwh * 365 * grid_tariff

\* round(capex / annual_savings, 1) if annual_savings else 0.
\* In tenths: 10 * (capex/3) / (daily*365*tariff/10000)
\*          = capex * 100000 / (3 * 365 * daily * tariff)
\*          = capex * 20000 / (219 * daily * tariff)
Payback(capex, daily_kwh, grid_tariff) ==
  IF AnnualSavings(daily_kwh, grid_tariff) # 0
  THEN RoundMulDiv(capex, 20000, 219 * daily_kwh * grid_tariff)
  ELSE {0}

\* the designs compute_design can return (more than one only on a tie of
\* one of its three roundings)
compute_design(daily_kwh, ghi, outage_hours, grid_tariff, inverter_type) ==
  UNION { UNION { { SolarDesign(pv_kw, PvCost(pv_kw), pv_kw * 7, pv_kw,
                                inverter_type, InvCost(pv_kw, inverter_type),
                                batt_kwh, BattCost(batt_kwh), payback)
                    : payback \in Payback(PvCost(pv_kw)
                                            + InvCost(pv_kw, inverter_type)
                                            + BattCost(batt_kwh),
                                          daily_kwh, grid_tariff) }
                  : batt_kwh \in size_battery(outage_hours, daily_kwh) }
          : pv_kw \in PvKw(daily_kwh, ghi) }

\* sum(qty * APPLIANCE_P_RATED[appl] * DEFAULT_DUTY_HOURS[appl] / 1000 ...),
\* accumulated in the order of appliance_qty.items(); W * (h/10) / 1000 kWh
\* is W * h10 / 100 hundredths of a kWh
RECURSIVE SumKwh(_, _)
SumKwh(qty, i) ==
  IF i = 0 THEN 0
  ELSE SumKwh(qty, i - 1)
       + (qty[APPLIANCES[i]] * APPLIANCE_P_RATED[APPLIANCES[i]]
            * DEFAULT_DUTY_HOURS[APPLIANCES[i]]) \div 100

\* each kind counted once when present, whatever its quantity
TotalKwhPresence(qty) ==
  SumKwh([a \in ApplianceSet |-> IF qty[a] > 0 THEN 1 ELSE 0],
         Len(APPLIANCES))

TotalKwh(qty) == SumKwh(qty, Len(APPLIANCES))

(* ------------------------------- state --------------------------------- *)
VARIABLES
  appliance_qty,  \* sidebar: appliance -> quantity
  city,           \* sidebar: selected city
  outage,         \* sidebar: weekly grid outage, hours
  inv_type,       \* sidebar: inverter type
  roof_height,    \* sidebar: roof height, 1/HeightScale m
  clicked,        \* the value st.sidebar.button returned in the last run
  total_kwh,      \* results of the last run (defaults when not clicked)
  design,
  panel_rec,
  error,          \* the last run ended in an uncaught exception
  heap,           \* list reference -> list, the recommended_companies lists
  edits           \* edits made by the caller to returned brand lists

inputs == << appliance_qty, city, outage, inv_type, roof_height >>

results == << clicked, total_kwh, design, panel_rec, error >>

vars == << appliance_qty, city, outage, inv_type, roof_height, clicked,
           total_kwh, design, panel_rec, error, heap, edits >>

NoDesign == SolarDesign(0, 0, 0, 0, "", 0, 0, 0, 0)

RECURSIVE SumQty(_, _)
SumQty(qty, i) == IF i = 0 THEN 0 ELSE SumQty(qty, i - 1) + qty[APPLIANCES[i]]

\* the options of the city selectbox: list(CITY_SOLAR_DATA.keys())[:-1]
CityOptions == SubSeq(CITY_KEYS, 1, Len(CITY_KEYS) - 1)

\* CITY_SOLAR_DATA.get(city, CITY_SOLAR_DATA["default"])
CityData(c) ==
  IF c \in DOMAIN CITY_SOLAR_DATA THEN CITY_SOLAR_DATA[c]
  ELSE CITY_SOLAR_DATA["default"]

\* outage values tried where the whole slider range is not
OutageChoices == {0, 4, 168}

\* roof heights (metres) tried where the whole range is not: below, inside
\* each band, above
RoofChoices == {0, 10, 20, 38, 50, 70, 80, MaxHeight}

\* the widget defaults: value=0, index=0, 4, index=1, value=10.0
Init ==
  /\ appliance_qty = [a \in ApplianceSet |-> 0]
  /\ city = CityOptions[1]
  /\ outage = 4
  /\ inv_type = "hybrid"
  /\ roof_height = 10 * HeightScale
  /\ clicked = FALSE
  /\ total_kwh = 0
  /\ design = NoDesign
  /\ panel_rec = NoPanel
  /\ error = FALSE
  /\ heap = InitialHeap
  /\ edits = 0

\* a run of the script without the button: the else branch, no results
Rerun ==
  /\ clicked' = FALSE
  /\ total_kwh' = 0
  /\ design' = NoDesign
  /\ panel_rec' = NoPanel
  /\ error' = FALSE
  /\ UNCHANGED << heap, edits >>

SetQuantity(appl, q) ==
  /\ SumQty([appliance_qty EXCEPT ![appl] = q], Len(APPLIANCES)) <= MaxTotalQty
  /\ appliance_qty' = [appliance_qty EXCEPT ![appl] = q]
  /\ UNCHANGED << city, outage, inv_type, roof_height >>
  /\ Rerun

SetCity(c) ==
  /\ city' = c
  /\ UNCHANGED << appliance_qty, outage, inv_type, roof_height >>
  /\ Rerun

SetOutage(h) ==
  /\ outage' = h
  /\ UNCHANGED << appliance_qty, city, inv_type, roof_height >>
  /\ Rerun

SetInvType(t) ==
  /\ inv_type' = t
  /\ UNCHANGED << appliance_qty, city, outage, roof_height >>
  /\ Rerun

SetRoofHeight(h) ==
  /\ roof_height' = h
  /\ UNCHANGED << appliance_qty, city, outage, inv_type >>
  /\ Rerun

\* the "Calculate System" branch: load, city data, design, recommendation
Calculate ==
  LET kwh == TotalKwh(appliance_qty)
      city_data == CityData(city)
      rec == recommend_panel_by_floor_height(roof_height)
  IN  /\ clicked' = TRUE
      /\ total_kwh' = kwh
      /\ design' \in compute_design(kwh, city_data.ghi, outage,
                                    city_data.grid_tariff, inv_type)
      /\ error' = rec.raised
      /\ panel_rec' = rec.value
      /\ UNCHANGED << inputs, heap, edits >>

\* a caller of the engine appends to the brand list of the record it got
AppendBrand(b) ==
  /\ clicked /\ ~error /\ edits < MaxEdits
  /\ heap' = [heap EXCEPT ![panel_rec.brands] = Append(@, b)]
  /\ edits' = edits + 1
  /\ UNCHANGED << inputs, results >>

\* ... or removes its last entry
RemoveBrand ==
  /\ clicked /\ ~error /\ edits < MaxEdits
  /\ Len(heap[panel_rec.brands]) > 0
  /\ heap' = [heap EXCEPT ![panel_rec.brands] = SubSeq(@, 1, Len(@) - 1)]
  /\ edits' = edits + 1
  /\ UNCHANGED << inputs, results >>

ChangeQuantity ==
  \E appl \in ApplianceSet, q \in 0..MaxTotalQty : SetQuantity(appl, q)

ChangeCity == \E k \in 1..MaxCity : SetCity(CityOptions[k])

ChangeOutage == \E h \in 0..168 : SetOutage(h)

TryOutage == \E h \in OutageChoices : SetOutage(h)

ChangeInvType == \E t \in InverterTypes : SetInvType(t)

ChangeRoofHeight == \E h \in 0..(MaxHeight * HeightScale) : SetRoofHeight(h)

TryRoofHeight == \E h \in RoofChoices : SetRoofHeight(h * HeightScale)

EditBrands == AppendBrand("Other") \/ RemoveBrand

\* the resolver with the roof height over its whole range
NextPanel == ChangeRoofHeight \/ Calculate

SpecPanel == Init /\ [][NextPanel]_vars

\* the resolver and a caller that edits what it returns
NextCaller == TryRoofHeight \/ Calculate \/ EditBrands

SpecCaller == Init /\ [][NextCaller]_vars

\* the load aggregator and the sizing calculator
NextSizing ==
  ChangeQuantity \/ ChangeCity \/ TryOutage \/ ChangeInvType \/ Calculate

SpecSizing == Init /\ [][NextSizing]_vars

\* the battery sub-routine over the whole slider range
NextBattery == ChangeQuantity \/ ChangeOutage \/ Calculate

SpecBattery == Init /\ [][NextBattery]_vars

Next ==
  \/ ChangeQuantity
  \/ ChangeCity
  \/ ChangeOutage
  \/ ChangeInvType
  \/ ChangeRoofHeight
  \/ Calculate
  \/ EditBrands

Spec == Init /\ [][Next]_vars

(* ============================ properties =============================== *)
Abs(x) == IF x < 0 THEN -x ELSE x

\* the inclusive ranges of the reference bands, in metres, in list order
BandRanges ==
  << << 3, 15 >>, << 16, 30 >>, << 31, 45 >>, << 46, 60 >>, << 61, 75 >>,
     << 76, 90 >> >>

Contains(i, h) ==
  BandRanges[i][1] * HeightScale <= h /\ h <= BandRanges[i][2] * HeightScale

Containing(h) == {i \in 1..Len(BandRanges) : Contains(i, h)}

\* a recommendation by value: the brand list read through its reference
RecValue(rec) ==
  [panel_type |-> rec.panel_type, brands |-> heap[rec.brands],
   wattage_w |-> rec.wattage_w, size_mm |-> rec.size_mm]

\* the descriptive fields of band i, by value
BandValue(i) ==
  [panel_type |-> PANEL_BY_HEIGHT[i].optimal_panel_type,
   brands |-> heap[PANEL_BY_HEIGHT[i].recommended_companies],
   wattage_w |-> PANEL_BY_HEIGHT[i].typical_wattage_w,
   size_mm |-> PANEL_BY_HEIGHT[i].typical_dimensions_mm]

Returned == clicked /\ ~error

\* the arguments the last run passed to compute_design
Ghi == CityData(city).ghi

Tariff == CityData(city).grid_tariff

C1Load ==
  [a \in ApplianceSet |-> IF a \in {"AC 1.5 ton", "Fridge"} THEN 1 ELSE 0]

\* C1: for the load {AC 1.5 ton: 1, Fridge: 1} the aggregation yields
\* 13.2 kWh/day, and at irradiance 5.5, whatever the outage hours, tariff and
\* inverter type, the design has pv_kw = 3.0, subsidy 26000, pv_cost 109000.
C1_ReferenceScenario ==
  (clicked /\ appliance_qty = C1Load /\ Ghi = 55)
    => /\ total_kwh = 1320
       /\ design.pv_kw = 30
       /\ Subsidy(design.pv_kw) = 3 * 26000
       /\ design.pv_cost = 3 * 109000

C1_Witness ==
  /\ clicked /\ appliance_qty = C1Load /\ Ghi = 55
  /\ outage = 168 /\ inv_type = "grid" /\ design.pv_kw = 30

\* C2: a height inside at least one band gets the fields of the first band
\* in list order that contains it; 20 m gets the "16-30" band.
C2_FirstContainingBand ==
  /\ (clicked /\ Containing(roof_height) # {})
       => /\ ~error
          /\ \E i \in Containing(roof_height) :
               /\ \A j \in Containing(roof_height) : i <= j
               /\ RecValue(panel_rec) = BandValue(i)
  /\ (clicked /\ roof_height = 20 * HeightScale)
       => /\ ~error
          /\ panel_rec.panel_type = "Half-cut Mono PERC / TOPCon"
          /\ panel_rec.wattage_w = 535

C2_Witness ==
  /\ Returned /\ roof_height = 16 * HeightScale
  /\ panel_rec.wattage_w = 535

\* C3: a height no band contains gets the last band when it is above 90 m
\* and the first band when it is below 3 m.
C3_OutOfRangePolicy ==
  (clicked /\ Containing(roof_height) = {})
    => /\ roof_height > 90 * HeightScale
            => ~error /\ RecValue(panel_rec) = BandValue(Len(PANEL_BY_HEIGHT))
       /\ roof_height < 3 * HeightScale
            => ~error /\ RecValue(panel_rec) = BandValue(1)

C3_Witness ==
  /\ Returned /\ roof_height = 200 * HeightScale
  /\ panel_rec.size_mm = "2200 x 1190 x 38"

\* C4: for every height >= 0 the call returns, and what it returns is the
\* descriptive fields of exactly one configured band.
C4_Total ==
  clicked
    => /\ ~error
       /\ Cardinality({i \in 1..Len(PANEL_BY_HEIGHT) :
                         RecValue(panel_rec) = BandValue(i)}) = 1

C4_Witness ==
  /\ Returned /\ roof_height < 3 * HeightScale /\ roof_height % HeightScale # 0
  /\ panel_rec.wattage_w = 490

\* C5: size_battery is 0 when the outage is 0 or the daily energy is 0, and
\* at 168 h it is round(x * 1.2, 1): the tenth nearest to 1.2 x.
C5_BatteryBoundaryValues ==
  clicked
    => /\ outage = 0 => design.battery_kwh = 0
       /\ total_kwh = 0 => design.battery_kwh = 0
       /\ outage = 168
            => 2 * Abs(100 * design.battery_kwh - 12 * total_kwh) <= 100

C5_Witness ==
  clicked /\ outage = 168 /\ total_kwh = 1320 /\ design.battery_kwh = 158

\* C6: the daily total is linear in each quantity (k more of one kind adds
\* k * ratedPower * dutyHours / 1000, whatever the other quantities) and
\* never decreases when a quantity grows.
C6_LoadLinearMonotone ==
  clicked
    => \A a \in ApplianceSet, k \in 1..MaxTotalQty :
         LET more == TotalKwh([appliance_qty EXCEPT ![a] = @ + k])
         IN  /\ more = total_kwh
                       + (k * APPLIANCE_P_RATED[a] * DEFAULT_DUTY_HOURS[a])
                           \div 100
             /\ more >= total_kwh

C6_Witness ==
  /\ clicked /\ appliance_qty["Other"] = 1 /\ appliance_qty["Fan"] = 1
  /\ total_kwh = 88

\* the designs for twice the daily energy of the last run, all else equal
Doubled == compute_design(2 * total_kwh, Ghi, outage, Tariff, inv_type)

\* C7 as claimed: doubling the daily energy exactly doubles pv_kw and
\* battery_kwh.
C7_ExactDoubling ==
  clicked
    => \A d2 \in Doubled :
         /\ d2.pv_kw = 2 * design.pv_kw
         /\ d2.battery_kwh = 2 * design.battery_kwh

\* C7 (amended): doubling the daily energy gives a pv_kw and a battery_kwh
\* within one rounding step (0.1) of twice the original ones.
C7_DoublingWithinOneStep ==
  clicked
    => \A d2 \in Doubled :
         /\ Abs(d2.pv_kw - 2 * design.pv_kw) <= 1
         /\ Abs(d2.battery_kwh - 2 * design.battery_kwh) <= 1

C7_Witness ==
  /\ clicked /\ total_kwh > 0 /\ design.battery_kwh > 0
  /\ \E d2 \in Doubled : d2.pv_kw = 2 * design.pv_kw - 1

\* C8: payback_years is 0 exactly when the annual savings are zero.
C8_ZeroPaybackMeansUndefined ==
  clicked => (design.payback_years = 0 <=> AnnualSavings(total_kwh, Tariff) = 0)

\* C9: every height from 3 m to 90 m, fractional ones included, lies in
\* exactly one band, so the lookup never falls through to its else clause.
C9_BandsGapFree ==
  (3 * HeightScale <= roof_height /\ roof_height <= 90 * HeightScale)
    => /\ Cardinality(Containing(roof_height)) = 1
       /\ ScanBands(1, roof_height) > 0

\* C10: the reference data keeps its initial value whatever is called and
\* whatever a caller does to a returned recommendation.
C10_ReferenceDataUnchanged ==
  \A i \in 1..Len(PANEL_BY_HEIGHT) :
    heap[PANEL_BY_HEIGHT[i].recommended_companies]
      = InitialHeap[PANEL_BY_HEIGHT[i].recommended_companies]

====
